---------------------------- MODULE Spec2Model ----------------------------
(***************************************************************************)
(* A model of pr_quality_dashboard.py: the scoring function score_pr, the  *)
(* aggregation helpers percentile / safe_median, and the run of main()     *)
(* (per-PR loop, weekly buckets, build_deltas, payload, build_html).       *)
(*                                                                         *)
(* Numbers.  Python floats are modelled by fixed-point integers:           *)
(*   - a risk component r in [0,1] is the integer floor(r * SCALE);        *)
(*   - a score s in [0,100] is the integer s * SCALE;                      *)
(*   - a churn ratio c in [0,1] is the integer floor(c * SCALE);           *)
(*   - durations are whole hours.                                          *)
(* An optional value (Python None or a value) is a sequence of length at   *)
(* most one: None is <<>> and the value v is <<v>>.                        *)
(***************************************************************************)
EXTENDS Integers, Sequences, FiniteSets, TLC

None    == <<>>
Some(v) == <<v>>
Val(o)  == o[1]

\* fixed-point unit of risk components, churn ratios and scores
SCALE == 10000

\* number of fractional bits of the fixed-point logarithm
LOGBITS == 12

\* ------------------------------------------------------------------------
\* Bounds of the model (not program constants)

\* largest review_rounds value drawn for a metrics record
MaxRounds == 4

\* ------------------------------------------------------------------------
\* Arithmetic helpers

RECURSIVE Pow2(_)
Pow2(n) == IF n = 0 THEN 1 ELSE 2 * Pow2(n - 1)

Min2(a, b) == IF a <= b THEN a ELSE b
Max2(a, b) == IF a >= b THEN a ELSE b

\* clamp(value, min_value, max_value) = max(min_value, min(max_value, value))
clamp(value, min_value, max_value) == Max2(min_value, Min2(max_value, value))

\* one, in the fixed-point unit of the logarithm
LogUnit == Pow2(LOGBITS)

\* floor(log2(n)) for n >= 1
RECURSIVE IntLog2(_)
IntLog2(n) == IF n < 2 THEN 0 ELSE 1 + IntLog2(n \div 2)

\* the LOGBITS fractional bits of log2(x / 2^LOGBITS), for x in
\* [2^LOGBITS, 2^(LOGBITS+1)), by repeated squaring
RECURSIVE FracBits(_, _)
FracBits(x, k) ==
    IF k = 0 THEN 0
    ELSE LET sq == (x * x) \div LogUnit
         IN  IF sq >= 2 * LogUnit
             THEN Pow2(k - 1) + FracBits(sq \div 2, k - 1)
             ELSE FracBits(sq, k - 1)

\* math.log1p(size), in base 2 and in units of 2^-LOGBITS, for size >= 0.
\* (score_pr only uses the quotient of two logarithms, which does not
\* depend on the base.)
log1p(size) ==
    LET n == 1 + size
        e == IntLog2(n)
        x == (n * LogUnit) \div Pow2(e)
    IN  e * LogUnit + FracBits(x, LOGBITS)

\* math.log1p raises ValueError (math domain error) for an argument <= -1
log1p_raises(size) == size <= -1

\* ------------------------------------------------------------------------
\* score_pr

\* metrics.get("review_rounds") or 0  /  metrics.get("churn_ratio") or 0.0
OrZero(o) == IF o = None THEN 0 ELSE Val(o)

\* math.log1p(2000)
Log1p2000 == log1p(2000)

size_risk_bad(size) == (log1p(size) * SCALE) \div Log1p2000
size_risk(size) == clamp((log1p(size) * SCALE) \div Log1p2000, 0, SCALE)

files_risk(files_changed) == clamp((files_changed * SCALE) \div 50, 0, SCALE)

review_rounds_risk(review_rounds) ==
    clamp((review_rounds * SCALE) \div 3, 0, SCALE)

churn_risk_bad(churn_ratio) == clamp(SCALE - churn_ratio * 2, 0, SCALE)
churn_risk(churn_ratio) == clamp(churn_ratio * 2, 0, SCALE)

tfr_risk(time_to_first_review_hours) ==
    IF time_to_first_review_hours = None
    THEN SCALE \div 2
    ELSE clamp((Val(time_to_first_review_hours) * SCALE) \div 72, 0, SCALE)

ttm_risk(time_to_merge_hours) ==
    IF time_to_merge_hours = None
    THEN SCALE \div 2
    ELSE clamp((Val(time_to_merge_hours) * SCALE) \div 240, 0, SCALE)

ci_risk(ci_failed) == IF ci_failed THEN SCALE ELSE 0

\* the weights of score_pr, in percent
weights_bad ==
    [size |-> 10, files |-> 10, review_rounds |-> 20, churn |-> 15,
     time_to_first_review |-> 10, time_to_merge |-> 15, ci_fail |-> 20]
weights ==
    [size |-> 20, files |-> 10, review_rounds |-> 20, churn |-> 15,
     time_to_first_review |-> 10, time_to_merge |-> 15, ci_fail |-> 10]

\* the risk components of a metrics record
components_of(metrics) ==
    [size_risk          |-> size_risk(metrics.additions + metrics.deletions),
     files_risk         |-> files_risk(metrics.files_changed),
     review_rounds_risk |-> review_rounds_risk(OrZero(Some(metrics.review_rounds))),
     churn_risk         |-> churn_risk(OrZero(metrics.churn_ratio)),
     tfr_risk           |-> tfr_risk(metrics.time_to_first_review_hours),
     ttm_risk           |-> ttm_risk(metrics.time_to_merge_hours),
     ci_risk            |-> ci_risk(metrics.ci_failed = TRUE)]

\* risk, in units of 1 / (100 * SCALE)
risk_of(c) ==
      c.size_risk          * weights.size
    + c.files_risk         * weights.files
    + c.review_rounds_risk * weights.review_rounds
    + c.churn_risk         * weights.churn
    + c.tfr_risk           * weights.time_to_first_review
    + c.ttm_risk           * weights.time_to_merge
    + c.ci_risk            * weights.ci_fail

NoComponents ==
    [size_risk |-> 0, files_risk |-> 0, review_rounds_risk |-> 0,
     churn_risk |-> 0, tfr_risk |-> 0, ttm_risk |-> 0, ci_risk |-> 0]

\* score_pr(metrics): raised is TRUE when the call raises (the logarithm of
\* a size <= -1); otherwise score = clamp(100 * (1 - risk), 0, 100)
score_pr(metrics) ==
    IF log1p_raises(metrics.additions + metrics.deletions)
    THEN [raised |-> TRUE, score |-> 0, components |-> NoComponents]
    ELSE LET c == components_of(metrics)
         IN  [raised     |-> FALSE,
              score      |-> clamp(100 * SCALE - risk_of(c), 0, 100 * SCALE),
              components |-> c]


\* ------------------------------------------------------------------------
\* percentile / safe_median

\* insert x into the ascending sequence s
RECURSIVE Insert(_, _)
Insert(x, s) ==
    IF s = <<>> THEN <<x>>
    ELSE IF x <= Head(s) THEN <<x>> \o s
    ELSE <<Head(s)>> \o Insert(x, Tail(s))

\* sorted(values): the values in ascending order
RECURSIVE sorted(_)
sorted_bad(values) == values
sorted(values) ==
    IF values = <<>> THEN <<>> ELSE Insert(Head(values), sorted(Tail(values)))

\* percentile(values, pct), for a whole pct: None on the empty sequence,
\* otherwise 100 times the value returned.  k = (n - 1) * pct / 100 is kept
\* as the numerator kn of k * 100; the Python list index i is i + 1 here.
percentile(values, pct) ==
    IF values = <<>> THEN None
    ELSE IF Len(values) = 1 THEN Some(100 * values[1])
    ELSE LET values_sorted == sorted(values)
             kn == (Len(values_sorted) - 1) * pct
             f  == kn \div 100
             c  == IF kn % 100 = 0 THEN f ELSE f + 1
         IN  IF f = c
             THEN Some(100 * values_sorted[f + 1])
             ELSE Some(  values_sorted[f + 1] * (c * 100 - kn)
                       + values_sorted[c + 1] * (kn - f * 100))

\* statistics.median(values) times 2, for a non-empty sequence
median(values) ==
    LET data == sorted(values)
        n    == Len(data)
    IN  IF n % 2 = 1
        THEN 2 * data[n \div 2 + 1]
        ELSE data[n \div 2] + data[n \div 2 + 1]

\* safe_median(values): None on the empty sequence, otherwise 2 times the
\* median
safe_median(values) ==
    IF values = <<>> THEN None ELSE Some(median(values))

\* ------------------------------------------------------------------------
\* Timestamps
\*
\* A timestamp text (a JSON string or a command-line argument) is the record
\*   [wellformed, year, month, day, hour, minute, utc]
\* where wellformed says whether datetime.fromisoformat accepts the text and
\* utc whether it carries a UTC designator ("Z" or "+00:00").  A datetime
\* object is [year, month, day, hour, minute, aware].

IsLeap(y) == y % 4 = 0 /\ (y % 100 # 0 \/ y % 400 = 0)

DaysBeforeYear(y) ==
    LET p == y - 1 IN p * 365 + p \div 4 - p \div 100 + p \div 400

DaysInMonth(y, m) ==
    IF m = 2 THEN (IF IsLeap(y) THEN 29 ELSE 28)
    ELSE IF m \in {4, 6, 9, 11} THEN 30 ELSE 31

RECURSIVE DaysBeforeMonth(_, _)
DaysBeforeMonth(y, m) ==
    IF m = 1 THEN 0 ELSE DaysBeforeMonth(y, m - 1) + DaysInMonth(y, m - 1)

\* datetime.toordinal(): 0001-01-01 is day 1
toordinal(d) == DaysBeforeYear(d.year) + DaysBeforeMonth(d.year, d.month) + d.day

\* minutes since the start of day 0
Instant(d) == (toordinal(d) * 24 + d.hour) * 60 + d.minute

\* comparing two datetime objects raises TypeError when exactly one of them
\* is timezone-aware
CompareRaises(a, b) == a.aware # b.aware

\* parse_iso8601(value): None for an absent or empty text; ValueError for a
\* text that is no ISO-8601 timestamp; otherwise the datetime, aware exactly
\* when the text carries a UTC designator
parse_iso8601(value) ==
    IF value = None THEN [raised |-> FALSE, value |-> None]
    ELSE IF ~Val(value).wellformed THEN [raised |-> TRUE, value |-> None]
    ELSE [raised |-> FALSE,
          value  |-> Some([year   |-> Val(value).year,
                           month  |-> Val(value).month,
                           day    |-> Val(value).day,
                           hour   |-> Val(value).hour,
                           minute |-> Val(value).minute,
                           aware  |-> Val(value).utc])]

\* the ordinal of the Monday that starts ISO week 1 of the year
isoweek1monday(year) ==
    LET firstday     == DaysBeforeYear(year) + 1
        firstweekday == (firstday + 6) % 7
        week1monday  == firstday - firstweekday
    IN  IF firstweekday > 3 THEN week1monday + 7 ELSE week1monday

\* datetime.isocalendar(): the ISO year and ISO week of a datetime
isocalendar(d) ==
    LET today == toordinal(d)
        week  == (today - isoweek1monday(d.year)) \div 7
    IN  IF week < 0
        THEN [year |-> d.year - 1,
              week |-> (today - isoweek1monday(d.year - 1)) \div 7 + 1]
        ELSE IF week >= 52 /\ today >= isoweek1monday(d.year + 1)
        THEN [year |-> d.year + 1, week |-> 1]
        ELSE [year |-> d.year, week |-> week + 1]

\* a calendar that numbers weeks from 1 January
isocalendar_bad(d) ==
    [year |-> d.year,
     week |-> (toordinal(d) - DaysBeforeYear(d.year) - 1) \div 7 + 1]

\* Text: a string is the sequence of its characters
DigitChar(n) == <<"0", "1", "2", "3", "4", "5", "6", "7", "8", "9">>[n + 1]

\* str(n) for n >= 0
RECURSIVE Decimal(_)
Decimal(n) ==
    IF n < 10 THEN <<DigitChar(n)>>
    ELSE Decimal(n \div 10) \o <<DigitChar(n % 10)>>

\* f"{n:02d}" for n >= 0
Decimal02(n) == IF n < 10 THEN <<"0">> \o Decimal(n) ELSE Decimal(n)

\* iso_week_key(value) = f"{year}-W{week:02d}"
iso_week_key_bad(value) ==
    LET iso == isocalendar_bad(value)
    IN  Decimal(iso.year) \o <<"-", "W">> \o Decimal02(iso.week)
iso_week_key(value) ==
    LET iso == isocalendar(value)
    IN  Decimal(iso.year) \o <<"-", "W">> \o Decimal02(iso.week)

\* the code point of a character of a week key
Ord(ch) ==
    CASE ch = "-" -> 45
      [] ch = "0" -> 48 [] ch = "1" -> 49 [] ch = "2" -> 50 [] ch = "3" -> 51
      [] ch = "4" -> 52 [] ch = "5" -> 53 [] ch = "6" -> 54 [] ch = "7" -> 55
      [] ch = "8" -> 56 [] ch = "9" -> 57
      [] ch = "W" -> 87

\* a < b for two strings (Python's lexicographic order)
RECURSIVE StrLess(_, _)
StrLess(a, b) ==
    IF b = <<>> THEN FALSE
    ELSE IF a = <<>> THEN TRUE
    ELSE IF Ord(Head(a)) # Ord(Head(b)) THEN Ord(Head(a)) < Ord(Head(b))
    ELSE StrLess(Tail(a), Tail(b))

\* sorted(keys) for a set of strings
RECURSIVE SortedKeys_bad(_)
RECURSIVE SortedKeys(_)
SortedKeys_bad(keys) ==
    IF keys = {} THEN <<>>
    ELSE LET most == CHOOSE k \in keys : \A o \in keys \ {k} : StrLess(o, k)
         IN  <<most>> \o SortedKeys_bad(keys \ {most})
SortedKeys(keys) ==
    IF keys = {} THEN <<>>
    ELSE LET least == CHOOSE k \in keys : \A o \in keys \ {k} : StrLess(k, o)
         IN  <<least>> \o SortedKeys(keys \ {least})

\* ------------------------------------------------------------------------
\* Number formatting
\*
\* A rational is [num, den] with den > 0.  The text str.format gives for it
\* is [fmt, minus, tenths]: the format, whether a minus sign is printed, and
\* the digits printed as a count of tenths (of a unit for "{:.1f}", of a
\* percent for "{:.1%}").

Rat(n, d) == [num |-> n, den |-> d]

\* after - before
RatSub(a, b) ==
    IF a.den = b.den THEN Rat(a.num - b.num, a.den)
    ELSE Rat(a.num * b.den - b.num * a.den, a.den * b.den)

Abs(n) == IF n < 0 THEN 0 - n ELSE n

\* n / d rounded to the nearest integer, ties to even (n >= 0, d > 0)
RoundHalfEven(n, d) ==
    LET q == n \div d
        r == n - q * d
    IN  IF 2 * r < d THEN q
        ELSE IF 2 * r > d THEN q + 1
        ELSE IF q % 2 = 0 THEN q ELSE q + 1

\* fmt.format(x) for fmt "{:.1f}" (per = 10) and "{:.1%}" (per = 1000)
Format(fmt, x) ==
    LET per == IF fmt = "{:.1%}" THEN 1000 ELSE 10
    IN  [fmt    |-> fmt,
         minus  |-> x.num < 0,
         tenths |-> RoundHalfEven(Abs(x.num) * per, x.den)]

\* format_delta(before, after, fmt)
format_delta(before, after, fmt) ==
    IF before = None \/ after = None
    THEN [before |-> None, after |-> None, delta |-> None]
    ELSE LET delta == RatSub(Val(after), Val(before))
         IN  [before |-> Some(Format(fmt, Val(before))),
              after  |-> Some(Format(fmt, Val(after))),
              delta  |-> Some(Format(fmt, delta))]

\* ------------------------------------------------------------------------
\* Metric extraction
\*
\* A review is [state, login, submitted_at].  A commit is
\*   [details_fetch, additions, deletions, date,
\*    runs_fetch, conclusions, status_fetch, state]
\* where a *_fetch field is the outcome of the API request: "ok", or the
\* exception urllib raises ("HTTPError", or "URLError" which is not an
\* HTTPError).

\* compute_review_rounds(reviews)
compute_review_rounds(reviews) ==
    Cardinality({i \in 1 .. Len(reviews) : reviews[i].state = "CHANGES_REQUESTED"})

\* the reviews compute_first_review_time looks at: those not by the author
OtherReviews(reviews, author) ==
    SelectSeq(reviews, LAMBDA r : r.login # author)

\* compute_first_review_time(reviews, author): raised when a submitted_at
\* does not parse or when min() compares an aware with a naive datetime
compute_first_review_time(reviews, author) ==
    LET others == OtherReviews(reviews, author)
        parsed == [i \in 1 .. Len(others) |-> parse_iso8601(others[i].submitted_at)]
        times  == {Val(parsed[i].value) :
                     i \in {j \in 1 .. Len(others) : parsed[j].value # None}}
    IN  IF \E i \in 1 .. Len(others) : parsed[i].raised
        THEN [raised |-> TRUE, value |-> None]
        ELSE IF times = {} THEN [raised |-> FALSE, value |-> None]
        ELSE IF \E a, b \in times : CompareRaises(a, b)
        THEN [raised |-> TRUE, value |-> None]
        ELSE [raised |-> FALSE,
              value  |-> Some(CHOOSE t \in times :
                                \A o \in times : Instant(t) <= Instant(o))]

\* the for loop of compute_churn_ratio from index idx (0-based) on
RECURSIVE ChurnLoop(_, _, _, _, _, _)
ChurnLoop(commits, idx, max_commits_check, first_review_time, total_changes, after_review_changes) ==
    IF idx >= Len(commits) \/ idx >= max_commits_check
    THEN [raised |-> FALSE, total_changes |-> total_changes,
          after_review_changes |-> after_review_changes]
    ELSE LET commit         == commits[idx + 1]
             commit_changes == commit.additions + commit.deletions
             commit_time    == parse_iso8601(commit.date)
             compared       == /\ first_review_time # None
                               /\ commit_time.value # None
         IN  IF \/ commit.details_fetch # "ok"
                \/ commit_time.raised
                \/ compared /\ CompareRaises(Val(commit_time.value),
                                             Val(first_review_time))
             THEN [raised |-> TRUE, total_changes |-> 0,
                   after_review_changes |-> 0]
             ELSE ChurnLoop(commits, idx + 1, max_commits_check,
                            first_review_time,
                            total_changes + commit_changes,
                            IF compared /\ Instant(Val(commit_time.value))
                                             > Instant(Val(first_review_time))
                            THEN after_review_changes + commit_changes
                            ELSE after_review_changes)

\* compute_churn_ratio without the "if idx >= max_commits_check: break"
compute_churn_ratio_bad(commits, first_review_time, max_commits_check) ==
    IF commits = <<>> THEN [raised |-> FALSE, value |-> None]
    ELSE LET r == ChurnLoop(commits, 0, Len(commits), first_review_time, 0, 0)
         IN  IF r.raised THEN [raised |-> TRUE, value |-> None]
             ELSE IF r.total_changes = 0
             THEN [raised |-> FALSE, value |-> Some(0)]
             ELSE [raised |-> FALSE,
                   value  |-> Some((r.after_review_changes * SCALE)
                                     \div r.total_changes)]

\* compute_churn_ratio(api, repo, pr_number, author, first_review_time,
\* max_commits_check), commits being what the commits request returns
compute_churn_ratio(commits, first_review_time, max_commits_check) ==
    IF commits = <<>> THEN [raised |-> FALSE, value |-> None]
    ELSE LET r == ChurnLoop(commits, 0, max_commits_check,
                            first_review_time, 0, 0)
         IN  IF r.raised THEN [raised |-> TRUE, value |-> None]
             ELSE IF r.total_changes = 0
             THEN [raised |-> FALSE, value |-> Some(0)]
             ELSE [raised |-> FALSE,
                   value  |-> Some((r.after_review_changes * SCALE)
                                     \div r.total_changes)]

FailedConclusions == {"failure", "cancelled", "timed_out", "action_required"}
FailedStates == {"failure", "error"}

\* the for loop of compute_ci_failed from index idx (0-based) on
RECURSIVE CILoop(_, _, _)
CILoop(commits, idx, max_commits_check) ==
    IF idx >= Len(commits) \/ idx >= max_commits_check
    THEN [raised |-> FALSE, value |-> FALSE]
    ELSE LET commit == commits[idx + 1]
             runs   == IF commit.runs_fetch = "ok"
                       THEN commit.conclusions ELSE <<>>
         IN  IF commit.runs_fetch = "URLError"
             THEN [raised |-> TRUE, value |-> FALSE]
             ELSE IF \E i \in 1 .. Len(runs) : runs[i] \in FailedConclusions
             THEN [raised |-> FALSE, value |-> TRUE]
             ELSE IF commit.status_fetch = "URLError"
             THEN [raised |-> TRUE, value |-> FALSE]
             ELSE IF commit.status_fetch = "ok" /\ commit.state \in FailedStates
             THEN [raised |-> FALSE, value |-> TRUE]
             ELSE CILoop(commits, idx + 1, max_commits_check)

\* compute_ci_failed(api, repo, pr_number, max_commits_check)
compute_ci_failed(commits, max_commits_check) ==
    IF commits = <<>> THEN [raised |-> FALSE, value |-> FALSE]
    ELSE CILoop(commits, 0, max_commits_check)

\* ------------------------------------------------------------------------
\* build_deltas

DeltaLabels == <<"Median Score", "CI Fail Rate", "Median Churn", "Median Size">>

\* the records build_deltas returns when there is no adoption date
NoAdoptionDeltas_bad ==
    [i \in 1 .. 4 |->
        [label |-> <<"Median Score", "Median Churn", "CI Fail Rate", "Median Size">>[i],
         before |-> None, after |-> None, delta |-> None]]
NoAdoptionDeltas ==
    [i \in 1 .. 4 |->
        [label |-> DeltaLabels[i], before |-> None, after |-> None,
         delta |-> None]]

\* [pr[key] for pr in values if pr.get(key) is not None], for the keys
\* median_of is called with
ScoreColumn(prs) == [i \in 1 .. Len(prs) |-> prs[i].score]
SizeColumn(prs) == [i \in 1 .. Len(prs) |-> prs[i].size]
ChurnColumn(prs) ==
    LET having == SelectSeq(prs, LAMBDA pr : pr.churn_ratio # None)
    IN  [i \in 1 .. Len(having) |-> Val(having[i].churn_ratio)]

\* median_of(key, values), given the filtered column; unit is what one unit
\* of the key is worth in the model's integers
median_of(filtered, unit) ==
    IF Len(filtered) = 0 THEN None
    ELSE Some(Rat(Val(safe_median(filtered)), 2 * unit))

\* rate_of("ci_failed", values)
rate_of_ci(prs) ==
    IF prs = <<>> THEN None
    ELSE Some(Rat(Cardinality({i \in 1 .. Len(prs) : prs[i].ci_failed}),
                  Len(prs)))

DeltaRecord(label, before, after, fmt) ==
    LET t == format_delta(before, after, fmt)
    IN  [label |-> label, before |-> t.before, after |-> t.after,
         delta |-> t.delta]

\* the partition test merged_at < adoption_date, for comparable datetimes
before_test(merged_at, adoption_date) ==
    Instant(merged_at) < Instant(adoption_date)

\* build_deltas(prs, adoption_date): raised when a merged_at is compared
\* with an adoption date of the other awareness (TypeError)
build_deltas(prs, adoption_date) ==
    IF adoption_date = None
    THEN [raised |-> FALSE, before_prs |-> <<>>, after_prs |-> <<>>,
          records |-> NoAdoptionDeltas]
    ELSE IF \E i \in 1 .. Len(prs) :
               /\ prs[i].merged_at # None
               /\ CompareRaises(Val(prs[i].merged_at), Val(adoption_date))
    THEN [raised |-> TRUE, before_prs |-> <<>>, after_prs |-> <<>>,
          records |-> <<>>]
    ELSE LET before_prs ==
                 SelectSeq(prs, LAMBDA pr :
                     /\ pr.merged_at # None
                     /\ before_test(Val(pr.merged_at), Val(adoption_date)))
             after_prs ==
                 SelectSeq(prs, LAMBDA pr :
                     /\ pr.merged_at # None
                     /\ ~before_test(Val(pr.merged_at), Val(adoption_date)))
         IN  [raised     |-> FALSE,
              before_prs |-> before_prs,
              after_prs  |-> after_prs,
              records    |->
                <<DeltaRecord("Median Score",
                      median_of(ScoreColumn(before_prs), SCALE),
                      median_of(ScoreColumn(after_prs), SCALE),
                      "{:.1f}"),
                  DeltaRecord("CI Fail Rate",
                      rate_of_ci(before_prs), rate_of_ci(after_prs),
                      "{:.1%}"),
                  DeltaRecord("Median Churn",
                      median_of(ChurnColumn(before_prs), SCALE),
                      median_of(ChurnColumn(after_prs), SCALE),
                      "{:.1%}"),
                  DeltaRecord("Median Size",
                      median_of(SizeColumn(before_prs), 1),
                      median_of(SizeColumn(after_prs), 1),
                      "{:.1f}")>>]

\* ------------------------------------------------------------------------
\* State

VARIABLES
    metrics,         \* SpecScore: the metrics record handed to score_pr
    scored,          \* SpecScore: what score_pr returned for it
    values,          \* SpecPct: the sequence handed to percentile / safe_median
    pct,             \* SpecPct: the percentile asked for
    pct_out,         \* SpecPct: what percentile(values, pct) returned
    median_out,      \* SpecPct: what safe_median(values) returned
    pc,              \* main: where the run is
    args,            \* main: the parsed command line
    adoption_date,   \* main: the parsed --adoption-date
    merged_prs,      \* main: the numbers of the merged PRs to process
    since,           \* main: the lookback cutoff (an instant)
    idx,             \* main: how many PRs the loop has visited
    processed_prs,   \* main: the scored-PR records so far
    weekly_buckets,  \* main: week key -> the records bucketed under it
    weekly_stats,    \* main: the weekly stats list
    deltas,          \* main: what build_deltas returned
    payload,         \* main: the payload handed to build_html
    raised_in,       \* main: the step an uncaught exception ended the run in
    pr_commits,      \* SpecChurn, SpecCI: what the commits request returned
    review_time,     \* SpecChurn: the first_review_time handed over
    commit_cap,      \* SpecChurn, SpecCI: the max_commits_check handed over
    churn_out,       \* SpecChurn: what compute_churn_ratio returned
    ci_out           \* SpecCI: what compute_ci_failed returned

scoreVars == <<metrics, scored>>
pctVars   == <<values, pct, pct_out, median_out>>
mainVars  == <<pc, args, adoption_date, merged_prs, since, idx, processed_prs, weekly_buckets, weekly_stats, deltas, payload, raised_in>>
commitVars == <<pr_commits, review_time, commit_cap, churn_out, ci_out>>
vars      == <<scoreVars, pctVars, mainVars, commitVars>>

\* ------------------------------------------------------------------------
\* main: inputs

\* the text "YYYY-MM-DDT00:00:00Z" GitHub gives for a timestamp
Stamp(y, m, d) ==
    Some([wellformed |-> TRUE, year |-> y, month |-> m, day |-> d,
          hour |-> 0, minute |-> 0, utc |-> TRUE])

\* the text "YYYY-MM-DD" of a date without a time or a UTC designator
DateOnly(y, m, d) ==
    Some([wellformed |-> TRUE, year |-> y, month |-> m, day |-> d,
          hour |-> 0, minute |-> 0, utc |-> FALSE])

\* a text datetime.fromisoformat rejects
Malformed ==
    Some([wellformed |-> FALSE, year |-> 0, month |-> 0, day |-> 0,
          hour |-> 0, minute |-> 0, utc |-> FALSE])

\* dt.datetime.now(dt.timezone.utc) when main starts: 2024-12-20 00:00 UTC
NowAtStart ==
    [year |-> 2024, month |-> 12, day |-> 20, hour |-> 0, minute |-> 0,
     aware |-> TRUE]

\* the merge timestamps of the model: none, the oldest instant of the
\* 12-month window, the last day of ISO year 2023, the first day of ISO
\* year 2024, and a day of the last month
MergedAtDom ==
    {None, Stamp(2023, 12, 26), Stamp(2023, 12, 31), Stamp(2024, 1, 1),
     Stamp(2024, 12, 2)}

CommitPass ==
    [details_fetch |-> "ok", additions |-> 10, deletions |-> 0,
     date |-> Stamp(2021, 1, 1), runs_fetch |-> "ok",
     conclusions |-> <<"success">>, status_fetch |-> "ok",
     state |-> "success"]

CommitFail ==
    [details_fetch |-> "ok", additions |-> 5, deletions |-> 5,
     date |-> Stamp(2021, 1, 3), runs_fetch |-> "ok",
     conclusions |-> <<"success", "failure">>, status_fetch |-> "ok",
     state |-> "failure"]

ReviewByBob ==
    [state |-> "CHANGES_REQUESTED", login |-> "bob",
     submitted_at |-> Stamp(2021, 1, 2)]

\* what the API returns for one PR: the PR details, its reviews, its commits
Bundle(merged_at, additions, reviews, commits) ==
    [details_fetch |-> "ok", merged_at |-> merged_at,
     created_at |-> Stamp(2021, 1, 1), additions |-> additions,
     deletions |-> 0, changed_files |-> 5, author |-> "alice",
     reviews |-> reviews, commits |-> commits]

\* well-formed bundles: a PR without reviews and commits for every merge
\* timestamp; one reviewed, with a failing commit pushed after the review,
\* merged on either side of the turn of the year; one with a passing commit
GoodBundles ==
    {Bundle(m, 0, <<>>, <<>>) : m \in MergedAtDom}
    \cup {Bundle(m, 150, <<ReviewByBob>>, <<CommitPass, CommitFail>>) :
             m \in {Stamp(2023, 12, 31), Stamp(2024, 1, 1)}}
    \cup {Bundle(m, 150, <<>>, <<CommitPass>>) :
             m \in {Stamp(2024, 1, 1), Stamp(2024, 12, 2)}}

\* bundles whose extraction fails: a malformed merge timestamp, a negative
\* line count, an HTTP error on the details request
BadBundles ==
    {Bundle(Malformed, 0, <<>>, <<>>),
     Bundle(Stamp(2024, 1, 1), -5, <<>>, <<>>),
     [Bundle(Stamp(2024, 1, 1), 0, <<>>, <<>>) EXCEPT !.details_fetch = "HTTPError"]}

Bundles == GoodBundles \cup BadBundles

DEFAULT_MONTHS == 12
DEFAULT_SCORE_THRESHOLD == 70
DEFAULT_MAX_COMMITS_CHECK == 20

\* the command lines of the model: no adoption date, one in the documented
\* form YYYY-MM-DD, one written with a UTC designator; 1 or 12 months
ArgsDom ==
    [adoption_date : {None, DateOnly(2024, 1, 1), Stamp(2024, 1, 1)},
     months : {1, DEFAULT_MONTHS},
     score_threshold : {DEFAULT_SCORE_THRESHOLD},
     max_commits_check : {DEFAULT_MAX_COMMITS_CHECK}]

\* ------------------------------------------------------------------------
\* main: the per-PR loop body

\* (a - b).total_seconds() / 3600, in whole hours
HoursBetween(a, b) == (Instant(a) - Instant(b)) \div 60

\* the loop body up to the pr_entry, for the PR number and the bundle the
\* API returns for it: raised, or the entry
Extract(number, b, max_commits_check) ==
    LET first_review_time == compute_first_review_time(b.reviews, b.author)
        churn_ratio == compute_churn_ratio(b.commits, first_review_time.value, max_commits_check)
        ci_failed   == compute_ci_failed(b.commits, max_commits_check)
        merged_at   == parse_iso8601(b.merged_at)
        created_at  == parse_iso8601(b.created_at)
        tfr_taken   == created_at.value # None /\ first_review_time.value # None
        ttm_taken   == created_at.value # None /\ merged_at.value # None
        time_to_first_review ==
            IF tfr_taken
            THEN Some(HoursBetween(Val(first_review_time.value), Val(created_at.value)))
            ELSE None
        time_to_merge ==
            IF ttm_taken
            THEN Some(HoursBetween(Val(merged_at.value), Val(created_at.value)))
            ELSE None
        m == [additions     |-> b.additions,
              deletions     |-> b.deletions,
              files_changed |-> b.changed_files,
              review_rounds |-> compute_review_rounds(b.reviews),
              churn_ratio   |-> churn_ratio.value,
              time_to_first_review_hours |-> time_to_first_review,
              time_to_merge_hours        |-> time_to_merge,
              ci_failed     |-> ci_failed.value]
        s == score_pr(m)
    IN  IF \/ b.details_fetch # "ok"
           \/ first_review_time.raised
           \/ churn_ratio.raised
           \/ ci_failed.raised
           \/ merged_at.raised
           \/ created_at.raised
           \/ tfr_taken /\ CompareRaises(Val(first_review_time.value), Val(created_at.value))
           \/ ttm_taken /\ CompareRaises(Val(merged_at.value), Val(created_at.value))
           \/ s.raised
        THEN [raised |-> TRUE]
        ELSE [raised |-> FALSE,
              entry  |->
                [number        |-> number,
                 title         |-> "title",
                 url           |-> "url",
                 author        |-> b.author,
                 score         |-> s.score,
                 ci_failed     |-> ci_failed.value,
                 additions     |-> m.additions,
                 deletions     |-> m.deletions,
                 files_changed |-> m.files_changed,
                 review_rounds |-> m.review_rounds,
                 churn_ratio   |-> churn_ratio.value,
                 time_to_first_review_hours |-> time_to_first_review,
                 time_to_merge_hours        |-> time_to_merge,
                 merged_at     |-> merged_at.value,
                 size          |-> m.additions + m.deletions]]

\* merged_at >= since, for a merged_at that is present
in_window(merged_at, cutoff) == Instant(merged_at) >= cutoff

\* weekly_buckets.setdefault(key, []).append(pr_entry)
AddToBucket(buckets, key, entry) ==
    [k \in DOMAIN buckets \cup {key} |->
        IF k = key
        THEN (IF key \in DOMAIN buckets THEN buckets[key] ELSE <<>>) \o <<entry>>
        ELSE buckets[k]]

\* ------------------------------------------------------------------------
\* main: weekly stats, payload, build_html

\* one record of weekly_stats, for the bucket items of the key week
WeekRecord(week, items, score_threshold) ==
    LET n      == Len(items)
        scores == ScoreColumn(items)
        churns == ChurnColumn(items)
        sizes  == SizeColumn(items)
        rounds == [i \in 1 .. n |-> items[i].review_rounds]
    IN  [week                 |-> week,
         median_score         |-> safe_median(scores),
         p25_score            |-> percentile(scores, 25),
         p75_score            |-> percentile(scores, 75),
         pct_below_threshold  |->
             Rat(Cardinality({i \in 1 .. n : items[i].score < score_threshold * SCALE}), n),
         ci_fail_rate         |->
             Rat(Cardinality({i \in 1 .. n : items[i].ci_failed}), n),
         median_churn         |-> safe_median(churns),
         median_size          |-> safe_median(sizes),
         median_review_rounds |-> safe_median(rounds)]

\* the weekly_stats list: one record per key of weekly_buckets, in
\* sorted(weekly_buckets.keys()) order
WeeklyStatsOf(buckets, score_threshold) ==
    LET weeks == SortedKeys(DOMAIN buckets)
    IN  [i \in 1 .. Len(weeks) |->
            WeekRecord(weeks[i], buckets[weeks[i]], score_threshold)]

\* the largest number of minutes between the clock read that sets since and
\* the one that sets generated_at
MaxClockDrift == 1

\* now.strftime("%Y-%m-%d %H:%M UTC") for the clock read drift minutes after
\* NowAtStart (the model's drift stays within the hour)
GeneratedAt(drift) ==
    [year |-> NowAtStart.year, month |-> NowAtStart.month,
     day |-> NowAtStart.day, hour |-> NowAtStart.hour,
     minute |-> NowAtStart.minute + drift]

\* the Python type of each value of a pr_entry
PrEntryTypes(e) ==
    [number        |-> "int",
     title         |-> "str",
     url           |-> "str",
     author        |-> "str",
     score         |-> "float",
     ci_failed     |-> "bool",
     additions     |-> "int",
     deletions     |-> "int",
     files_changed |-> "int",
     review_rounds |-> "int",
     churn_ratio   |-> IF e.churn_ratio = None THEN "NoneType" ELSE "float",
     time_to_first_review_hours |->
         IF e.time_to_first_review_hours = None THEN "NoneType" ELSE "float",
     time_to_merge_hours |->
         IF e.time_to_merge_hours = None THEN "NoneType" ELSE "float",
     merged_at     |-> IF e.merged_at = None THEN "NoneType" ELSE "datetime",
     size          |-> "int"]

\* the types json.dumps encodes; any other makes it raise TypeError
JsonTypes == {"str", "int", "float", "bool", "NoneType", "list", "dict"}

\* json.dumps(payload) raises: the weekly records hold numbers and None, the
\* delta records strings and None, so only a pr_entry can hold another type
json_dumps_raises(p) ==
    \E i \in 1 .. Len(p.prs) :
        \E f \in DOMAIN PrEntryTypes(p.prs[i]) :
            PrEntryTypes(p.prs[i])[f] \notin JsonTypes

\* ------------------------------------------------------------------------
\* main: the run

ScoreIdle ==
    /\ metrics = [additions |-> 0, deletions |-> 0, files_changed |-> 0,
                  review_rounds |-> 0, churn_ratio |-> None,
                  time_to_first_review_hours |-> None,
                  time_to_merge_hours |-> None, ci_failed |-> FALSE]
    /\ scored = [raised |-> FALSE, score |-> 0, components |-> NoComponents]

PctIdle ==
    /\ values = <<>>
    /\ pct = 0
    /\ pct_out = None
    /\ median_out = None

MainIdle ==
    /\ pc = "idle"
    /\ args = [adoption_date |-> None, months |-> DEFAULT_MONTHS,
               score_threshold |-> DEFAULT_SCORE_THRESHOLD,
               max_commits_check |-> DEFAULT_MAX_COMMITS_CHECK]
    /\ adoption_date = None
    /\ merged_prs = <<>>
    /\ since = 0
    /\ idx = 0
    /\ processed_prs = <<>>
    /\ weekly_buckets = <<>>
    /\ weekly_stats = <<>>
    /\ deltas = None
    /\ payload = None
    /\ raised_in = "none"

CommitIdle ==
    /\ pr_commits = <<>>
    /\ review_time = None
    /\ commit_cap = DEFAULT_MAX_COMMITS_CHECK
    /\ churn_out = [raised |-> FALSE, value |-> None]
    /\ ci_out = [raised |-> FALSE, value |-> FALSE]

\* largest number of merged PRs of a run (the list after [: args.max_prs])
MaxPRs == 2

\* main up to the per-PR loop: the arguments are parsed, the merged PRs
\* listed, the lookback cutoff computed from the clock
Init ==
    /\ ScoreIdle
    /\ PctIdle
    /\ CommitIdle
    /\ args \in ArgsDom
    /\ adoption_date = parse_iso8601(args.adoption_date).value
    /\ merged_prs \in {[i \in 1 .. n |-> i] : n \in 0 .. MaxPRs}
    /\ since = Instant(NowAtStart) - 30 * args.months * 24 * 60
    /\ pc = "loop"
    /\ idx = 0
    /\ processed_prs = <<>>
    /\ weekly_buckets = <<>>
    /\ weekly_stats = <<>>
    /\ deltas = None
    /\ payload = None
    /\ raised_in = "none"

\* an uncaught exception ends the run in the step named
Raise(step) ==
    /\ pc' = "raised"
    /\ raised_in' = step

\* one iteration of "for pr in merged_prs"
ProcessPR ==
    /\ pc = "loop"
    /\ idx < Len(merged_prs)
    /\ \E b \in Bundles :
         LET r == Extract(merged_prs[idx + 1], b, args.max_commits_check)
         IN  IF r.raised
             THEN /\ Raise("loop")
                  /\ UNCHANGED <<idx, processed_prs, weekly_buckets>>
             ELSE /\ processed_prs' = Append(processed_prs, r.entry)
                  /\ IF r.entry.merged_at # None /\ ~Val(r.entry.merged_at).aware
                     THEN /\ Raise("loop")
                          /\ UNCHANGED <<idx, weekly_buckets>>
                     ELSE /\ idx' = idx + 1
                          /\ UNCHANGED <<pc, raised_in>>
                          /\ weekly_buckets' =
                               IF /\ r.entry.merged_at # None
                                  /\ in_window(Val(r.entry.merged_at), since)
                               THEN AddToBucket(weekly_buckets,
                                        iso_week_key(Val(r.entry.merged_at)),
                                        r.entry)
                               ELSE weekly_buckets
    /\ UNCHANGED <<args, adoption_date, merged_prs, since, weekly_stats, deltas, payload>>
    /\ UNCHANGED <<scoreVars, pctVars, commitVars>>

\* "for week in sorted(weekly_buckets.keys())", after the loop
WeeklyStats ==
    /\ pc = "loop"
    /\ idx = Len(merged_prs)
    /\ weekly_stats' = WeeklyStatsOf(weekly_buckets, args.score_threshold)
    /\ pc' = "payload"
    /\ UNCHANGED <<args, adoption_date, merged_prs, since, idx, processed_prs, weekly_buckets, deltas, payload, raised_in>>
    /\ UNCHANGED <<scoreVars, pctVars, commitVars>>

\* "payload = {...}": the clock is read again and build_deltas is called
BuildPayload ==
    /\ pc = "payload"
    /\ \E drift \in 0 .. MaxClockDrift :
         LET d == build_deltas(processed_prs, adoption_date)
         IN  /\ deltas' = Some(d)
             /\ IF d.raised
                THEN /\ Raise("build_deltas")
                     /\ UNCHANGED payload
                ELSE /\ pc' = "html"
                     /\ UNCHANGED raised_in
                     /\ payload' =
                          Some([repo            |-> "owner/name",
                                generated_at    |-> GeneratedAt(drift),
                                adoption_date   |-> args.adoption_date,
                                prs             |-> processed_prs,
                                weekly          |-> weekly_stats,
                                score_threshold |-> args.score_threshold,
                                deltas          |-> d.records])
    /\ UNCHANGED <<args, adoption_date, merged_prs, since, idx, processed_prs, weekly_buckets, weekly_stats>>
    /\ UNCHANGED <<scoreVars, pctVars, commitVars>>

\* build_html(payload) and the write of the file
BuildHtml ==
    /\ pc = "html"
    /\ IF json_dumps_raises(Val(payload))
       THEN Raise("build_html")
       ELSE pc' = "done" /\ UNCHANGED raised_in
    /\ UNCHANGED <<args, adoption_date, merged_prs, since, idx, processed_prs, weekly_buckets, weekly_stats, deltas, payload>>
    /\ UNCHANGED <<scoreVars, pctVars, commitVars>>

Next ==
    \/ ProcessPR
    \/ WeeklyStats
    \/ BuildPayload
    \/ BuildHtml

Spec == Init /\ [][Next]_vars

\* ------------------------------------------------------------------------
\* SpecScore: score_pr applied to valid metrics records

AdditionsDom == {0, 100, 1950, 8000}
DeletionsDom == {0, 50}
FilesDom     == {0, 5, 80}
RoundsDom    == 0 .. MaxRounds
ChurnDom     == {None, Some(0), Some(3000), Some(SCALE)}
TfrDom       == {None, Some(0), Some(2), Some(100)}
TtmDom       == {None, Some(10), Some(300)}

\* the valid PRMetrics records of the model
MetricsDom ==
    [additions : AdditionsDom, deletions : DeletionsDom,
     files_changed : FilesDom, review_rounds : RoundsDom,
     churn_ratio : ChurnDom, time_to_first_review_hours : TfrDom,
     time_to_merge_hours : TtmDom, ci_failed : BOOLEAN]

ScoreInit ==
    /\ metrics \in MetricsDom
    /\ scored = score_pr(metrics)
    /\ PctIdle
    /\ MainIdle
    /\ CommitIdle

\* score_pr applied to the record m
Rescore(m) ==
    /\ metrics' = m
    /\ scored' = score_pr(m)
    /\ UNCHANGED <<pctVars, mainVars, commitVars>>

RaiseAdditions ==
    \E v \in AdditionsDom :
        /\ v > metrics.additions
        /\ Rescore([metrics EXCEPT !.additions = v])

RaiseDeletions ==
    \E v \in DeletionsDom :
        /\ v > metrics.deletions
        /\ Rescore([metrics EXCEPT !.deletions = v])

RaiseFiles ==
    \E v \in FilesDom :
        /\ v > metrics.files_changed
        /\ Rescore([metrics EXCEPT !.files_changed = v])

RaiseRounds ==
    \E v \in RoundsDom :
        /\ v > metrics.review_rounds
        /\ Rescore([metrics EXCEPT !.review_rounds = v])

RaiseChurn ==
    \E v \in ChurnDom \ {None} :
        /\ metrics.churn_ratio # None
        /\ Val(v) > Val(metrics.churn_ratio)
        /\ Rescore([metrics EXCEPT !.churn_ratio = v])

RaiseTfr ==
    \E v \in TfrDom \ {None} :
        /\ metrics.time_to_first_review_hours # None
        /\ Val(v) > Val(metrics.time_to_first_review_hours)
        /\ Rescore([metrics EXCEPT !.time_to_first_review_hours = v])

RaiseTtm ==
    \E v \in TtmDom \ {None} :
        /\ metrics.time_to_merge_hours # None
        /\ Val(v) > Val(metrics.time_to_merge_hours)
        /\ Rescore([metrics EXCEPT !.time_to_merge_hours = v])

FailCI ==
    /\ metrics.ci_failed = FALSE
    /\ Rescore([metrics EXCEPT !.ci_failed = TRUE])

ScoreNext ==
    \/ RaiseAdditions
    \/ RaiseDeletions
    \/ RaiseFiles
    \/ RaiseRounds
    \/ RaiseChurn
    \/ RaiseTfr
    \/ RaiseTtm
    \/ FailCI

SpecScore == ScoreInit /\ [][ScoreNext]_vars

\* ------------------------------------------------------------------------
\* SpecPct: percentile and safe_median applied to sequences of values

\* longest sequence handed to percentile
MaxLen == 4

\* largest value of such a sequence
MaxVal == 2

PctDom == {0, 25, 50, 75, 100}

PctInit ==
    /\ values = <<>>
    /\ pct \in PctDom
    /\ pct_out = percentile(values, pct)
    /\ median_out = safe_median(values)
    /\ ScoreIdle
    /\ MainIdle
    /\ CommitIdle

\* percentile(vs, p) and safe_median(vs) are called
Aggregate(vs, p) ==
    /\ values' = vs
    /\ pct' = p
    /\ pct_out' = percentile(vs, p)
    /\ median_out' = safe_median(vs)
    /\ UNCHANGED <<scoreVars, mainVars, commitVars>>

AppendValue ==
    /\ Len(values) < MaxLen
    /\ \E v \in 0 .. MaxVal : Aggregate(Append(values, v), pct)

AskPercentile ==
    \E p \in PctDom \ {pct} : Aggregate(values, p)

PctNext ==
    \/ AppendValue
    \/ AskPercentile

SpecPct == PctInit /\ [][PctNext]_vars

\* ------------------------------------------------------------------------
\* SpecChurn: compute_churn_ratio applied to commit lists

\* longest commit list the commits request returns
MaxCommits == 3

\* largest max_commits_check handed over
MaxCap == 2

\* a commit whose details request succeeds: its stats and its committer date
ChurnCommit(additions, deletions, date) ==
    [details_fetch |-> "ok", additions |-> additions, deletions |-> deletions,
     date |-> date, runs_fetch |-> "ok", conclusions |-> <<"success">>,
     status_fetch |-> "ok", state |-> "success"]

\* the commits of SpecChurn: with and without changed lines, committed the
\* day before the first review, at its very instant, and the day after
ChurnCommitDom ==
    {ChurnCommit(a, d, t) :
        a \in {0, 3}, d \in {0, 1},
        t \in {Stamp(2021, 1, 1), Stamp(2021, 1, 2), Stamp(2021, 1, 3)}}

\* the first_review_time values of SpecChurn: no review by another user, or
\* one submitted on 2021-01-02
ReviewTimeDom == {None, parse_iso8601(Stamp(2021, 1, 2)).value}

ChurnInit ==
    /\ pr_commits = <<>>
    /\ review_time \in ReviewTimeDom
    /\ commit_cap \in 0 .. MaxCap
    /\ churn_out = compute_churn_ratio(pr_commits, review_time, commit_cap)
    /\ ci_out = [raised |-> FALSE, value |-> FALSE]
    /\ ScoreIdle
    /\ PctIdle
    /\ MainIdle

\* compute_churn_ratio is called for the commit list cs under the cap
ChurnCall(cs, cap) ==
    /\ pr_commits' = cs
    /\ commit_cap' = cap
    /\ churn_out' = compute_churn_ratio(cs, review_time, cap)
    /\ UNCHANGED <<review_time, ci_out>>
    /\ UNCHANGED <<scoreVars, pctVars, mainVars>>

\* the PR has one more commit
PushCommit ==
    /\ Len(pr_commits) < MaxCommits
    /\ \E c \in ChurnCommitDom : ChurnCall(Append(pr_commits, c), commit_cap)

\* --max-commits-check is given another value
ChangeCap ==
    \E cap \in (0 .. MaxCap) \ {commit_cap} : ChurnCall(pr_commits, cap)

ChurnNext ==
    \/ PushCommit
    \/ ChangeCap

SpecChurn == ChurnInit /\ [][ChurnNext]_vars

\* ------------------------------------------------------------------------
\* SpecCI: compute_ci_failed applied to commit lists

\* a commit by what its check-runs request and its status request do: "ok"
\* returns the conclusions, or the state; "HTTPError" is urlopen raising
\* urllib.error.HTTPError for an error status; "URLError" is urlopen raising
\* urllib.error.URLError because the connection failed
CICommit(runs_fetch, conclusions, status_fetch, state) ==
    [details_fetch |-> "ok", additions |-> 0, deletions |-> 0,
     date |-> Stamp(2021, 1, 1), runs_fetch |-> runs_fetch,
     conclusions |-> conclusions, status_fetch |-> status_fetch,
     state |-> state]

\* the commits of SpecCI: passing; a check run of each failing conclusion;
\* a failing and a pending legacy status; either request answered by an HTTP
\* error; either request failing to connect
CICommitDom ==
    {CICommit("ok", <<"success">>, "ok", "success"),
     CICommit("ok", <<"success", "timed_out">>, "ok", "success"),
     CICommit("ok", <<"cancelled">>, "ok", "success"),
     CICommit("ok", <<"action_required", "failure">>, "ok", "pending"),
     CICommit("ok", <<>>, "ok", "error"),
     CICommit("ok", <<"neutral">>, "ok", "pending"),
     CICommit("HTTPError", <<"failure">>, "ok", "success"),
     CICommit("HTTPError", <<"success">>, "ok", "failure"),
     CICommit("ok", <<"success">>, "HTTPError", "failure"),
     CICommit("URLError", <<"success">>, "ok", "success"),
     CICommit("ok", <<"success">>, "URLError", "success")}

CIInit ==
    /\ pr_commits = <<>>
    /\ commit_cap \in 0 .. MaxCap
    /\ ci_out = compute_ci_failed(pr_commits, commit_cap)
    /\ review_time = None
    /\ churn_out = [raised |-> FALSE, value |-> None]
    /\ ScoreIdle
    /\ PctIdle
    /\ MainIdle

\* compute_ci_failed is called for the commit list cs under the cap
CICall(cs, cap) ==
    /\ pr_commits' = cs
    /\ commit_cap' = cap
    /\ ci_out' = compute_ci_failed(cs, cap)
    /\ UNCHANGED <<review_time, churn_out>>
    /\ UNCHANGED <<scoreVars, pctVars, mainVars>>

\* the PR has one more commit
PushCICommit ==
    /\ Len(pr_commits) < MaxCommits
    /\ \E c \in CICommitDom : CICall(Append(pr_commits, c), commit_cap)

\* --max-commits-check is given another value
ChangeCICap ==
    \E cap \in (0 .. MaxCap) \ {commit_cap} : CICall(pr_commits, cap)

CINext ==
    \/ PushCICommit
    \/ ChangeCICap

SpecCI == CIInit /\ [][CINext]_vars

\* ------------------------------------------------------------------------
\* Claims about score_pr

InUnit(r) == 0 <= r /\ r <= SCALE

\* C1: for every valid metrics record score_pr does not raise, the score is
\* in [0,100], each of the seven risk components is in [0,1], and an absent
\* time_to_first_review_hours / time_to_merge_hours gives a component of
\* exactly 0.5.
C1_ScoreAndComponentsInRange ==
    /\ scored.raised = FALSE
    /\ 0 <= scored.score /\ scored.score <= 100 * SCALE
    /\ \A f \in DOMAIN scored.components : InUnit(scored.components[f])
    /\ DOMAIN scored.components =
          {"size_risk", "files_risk", "review_rounds_risk", "churn_risk",
           "tfr_risk", "ttm_risk", "ci_risk"}
    /\ metrics.time_to_first_review_hours = None
          => 2 * scored.components.tfr_risk = SCALE
    /\ metrics.time_to_merge_hours = None
          => 2 * scored.components.ttm_risk = SCALE

\* a record whose size exceeds the 2000-line normaliser and whose two
\* durations are absent has been scored
C1_Witness ==
    /\ metrics.additions + metrics.deletions > 2000
    /\ metrics.time_to_first_review_hours = None
    /\ metrics.time_to_merge_hours = None
    /\ scored.components.size_risk = SCALE
    /\ scored.score < 100 * SCALE

\* C2: raising exactly one risk input of a valid metrics record (or turning
\* ci_failed from false to true) never raises the score.
C2_ScoreMonotone == [][scored'.score <= scored.score]_scoreVars

\* a record scored after one of its inputs was raised, with a strictly
\* lower score than the best possible
C2_Witness ==
    /\ metrics.review_rounds > 0
    /\ metrics.churn_ratio # None
    /\ Val(metrics.churn_ratio) > 0
    /\ metrics.ci_failed
    /\ scored.score < 100 * SCALE

\* worked example A of the specification
IsExampleA(m) ==
    /\ m.additions + m.deletions = 150
    /\ m.files_changed = 5
    /\ m.review_rounds = 0
    /\ m.churn_ratio = Some(0)
    /\ m.time_to_first_review_hours = Some(2)
    /\ m.time_to_merge_hours = Some(10)
    /\ m.ci_failed = FALSE

\* C3 as stated: example A scores strictly more than 85.
C3_ExampleA_Above85 == IsExampleA(metrics) => scored.score > 85 * SCALE

\* C3 as amended: example A scores strictly between 84 and 85 (about 84.9).
C3_ExampleA_Between84And85 ==
    IsExampleA(metrics) =>
        /\ scored.raised = FALSE
        /\ scored.score > 84 * SCALE
        /\ scored.score < 85 * SCALE

\* example A has been scored
C3_Witness == IsExampleA(metrics) /\ scored = score_pr(metrics) /\ scored.score > 0

\* ------------------------------------------------------------------------
\* Claims about percentile and safe_median

\* how many elements of values are below / at most v
CountBelow(v) == Cardinality({i \in 1 .. Len(values) : values[i] < v})
CountAtMost(v) == Cardinality({i \in 1 .. Len(values) : values[i] <= v})

\* the element of rank j (0-based) of values in ascending order
Ranked(j) ==
    CHOOSE v \in {values[i] : i \in 1 .. Len(values)} :
        CountBelow(v) <= j /\ j < CountAtMost(v)

\* 100 times the linear interpolation at index (n - 1) * pct / 100
Interpolated ==
    LET kn   == (Len(values) - 1) * pct
        lo   == kn \div 100
        frac == kn % 100
    IN  IF frac = 0 THEN 100 * Ranked(lo)
        ELSE (100 - frac) * Ranked(lo) + frac * Ranked(lo + 1)

\* C10: percentile and safe_median return None on the empty sequence;
\* percentile([x], p) is x; percentile(values, 50) is the middle element of
\* an odd-length sequence; in general percentile is the linear interpolation
\* at index (n - 1) * p / 100 of the sorted sequence.
C10_Percentile ==
    /\ values = <<>> => pct_out = None /\ median_out = None
    /\ Len(values) = 1 => pct_out = Some(100 * values[1])
    /\ (pct = 50 /\ Len(values) % 2 = 1) =>
           pct_out = Some(100 * Ranked((Len(values) - 1) \div 2))
    /\ Len(values) >= 1 => pct_out = Some(Interpolated)

\* an unsorted sequence of odd length whose 25th percentile falls between
\* two ranks has been aggregated
C10_Witness ==
    /\ values = <<2, 0, 1>>
    /\ pct = 25
    /\ pct_out = Some(50)
    /\ median_out # None

\* ------------------------------------------------------------------------
\* Claims about the run of main

\* the merge timestamp of a pr_entry, as an instant
MergedInstant(e) == Instant(Val(e.merged_at))

\* C4: every value of the payload handed to build_html is of a type JSON
\* encodes, so that serializing it never fails.
C4_PayloadSerializable ==
    /\ raised_in # "build_html"
    /\ payload # None =>
         \A i \in 1 .. Len(Val(payload).prs) :
            \A f \in DOMAIN PrEntryTypes(Val(payload).prs[i]) :
               PrEntryTypes(Val(payload).prs[i])[f] \in JsonTypes

\* C5: a PR whose extraction fails does not end the run: the run leaves the
\* per-PR loop only after every merged PR was visited.
C5_PerPRFailureIsolated ==
    /\ raised_in # "loop"
    /\ pc # "loop" => idx = Len(merged_prs)

\* the PRs of the partitions of build_deltas, by the instants alone
BeforeSet == {i \in 1 .. Len(processed_prs) :
                /\ processed_prs[i].merged_at # None
                /\ MergedInstant(processed_prs[i]) < Instant(Val(adoption_date))}
AfterSet == {i \in 1 .. Len(processed_prs) :
                /\ processed_prs[i].merged_at # None
                /\ MergedInstant(processed_prs[i]) >= Instant(Val(adoption_date))}

\* the records of a partition, in list order
Part(S) == SelectSeq(processed_prs, LAMBDA e : \E i \in S : processed_prs[i] = e)

\* the aggregate of tracked metric i (1..4) over the records prs
Aggregate4(i, prs) ==
    CASE i = 1 -> median_of(ScoreColumn(prs), SCALE)
      [] i = 2 -> rate_of_ci(prs)
      [] i = 3 -> median_of(ChurnColumn(prs), SCALE)
      [] i = 4 -> median_of(SizeColumn(prs), 1)

DeltaFormats == <<"{:.1f}", "{:.1%}", "{:.1%}", "{:.1f}">>

\* C6: with an adoption timestamp build_deltas returns, for each tracked
\* metric, a record whose before, after and delta are all absent when the
\* aggregate of either partition is absent, and whose delta is otherwise
\* the (formatted) aggregate after minus the aggregate before.
C6_DeltasWithAdoption ==
    (adoption_date # None /\ deltas # None) =>
        /\ ~Val(deltas).raised
        /\ Len(Val(deltas).records) = 4
        /\ \A i \in 1 .. 4 :
             LET r == Val(deltas).records[i]
                 b == Aggregate4(i, Part(BeforeSet))
                 a == Aggregate4(i, Part(AfterSet))
             IN  IF b = None \/ a = None
                 THEN r.before = None /\ r.after = None /\ r.delta = None
                 ELSE /\ r.before = Some(Format(DeltaFormats[i], Val(b)))
                      /\ r.after = Some(Format(DeltaFormats[i], Val(a)))
                      /\ r.delta = Some(Format(DeltaFormats[i], RatSub(Val(a), Val(b))))

Absent4(label) == [label |-> label, before |-> None, after |-> None, delta |-> None]

\* C7: without an adoption timestamp build_deltas returns exactly the four
\* records Median Score, CI Fail Rate, Median Churn, Median Size, in this
\* order, each with before, after and delta absent.
C7_NoAdoptionAllAbsent ==
    (adoption_date = None /\ deltas # None) =>
        /\ ~Val(deltas).raised
        /\ Val(deltas).records =
              <<Absent4("Median Score"), Absent4("CI Fail Rate"),
                Absent4("Median Churn"), Absent4("Median Size")>>

\* build_deltas was called without an adoption date on a non-empty list of
\* scored PRs, one of them with a merge timestamp
C7_Witness ==
    /\ adoption_date = None
    /\ deltas # None
    /\ Len(Val(deltas).records) = 4
    /\ \E i \in 1 .. Len(processed_prs) : processed_prs[i].merged_at # None

\* C8: for an adoption date given as YYYY-MM-DD build_deltas does not fail,
\* and puts every PR with a merge timestamp in exactly one partition: before
\* when merged strictly earlier than the adoption timestamp, after otherwise;
\* a PR without a merge timestamp is in neither.
C8_PartitionNeverFails ==
    (args.adoption_date # None /\ ~Val(args.adoption_date).utc /\ deltas # None) =>
        /\ ~Val(deltas).raised
        /\ Val(deltas).before_prs = Part(BeforeSet)
        /\ Val(deltas).after_prs = Part(AfterSet)

\* the ISO-8601 week of a datetime, by the rule that a week belongs to the
\* year its Thursday is in
ThursdayOf(d) == toordinal(d) - ((toordinal(d) + 6) % 7) + 3

IsoYearOf(d) ==
    CHOOSE y \in {d.year - 1, d.year, d.year + 1} :
        DaysBeforeYear(y) < ThursdayOf(d) /\ ThursdayOf(d) <= DaysBeforeYear(y + 1)

IsoWeekOf(d) == (ThursdayOf(d) - DaysBeforeYear(IsoYearOf(d)) - 1) \div 7 + 1

IsoKeyOf(d) ==
    Decimal(IsoYearOf(d)) \o <<"-", "W">> \o
        (IF IsoWeekOf(d) < 10 THEN <<"0">> ELSE <<>>) \o Decimal(IsoWeekOf(d))

\* the PR numbered n is in the bucket of key K
InBucket(n, K) ==
    /\ K \in DOMAIN weekly_buckets
    /\ \E j \in 1 .. Len(weekly_buckets[K]) : weekly_buckets[K][j].number = n

\* the start of the lookback window: now minus 30 days per month
WindowStart == Instant(NowAtStart) - args.months * 30 * 24 * 60

\* C9: a scored PR is in the weekly bucket of key K if and only if it has a
\* merge timestamp, merged at or after now minus the lookback, and K is the
\* ISO-8601 week key of its merge timestamp; a PR merged on 2024-01-01
\* within the window is in bucket "2024-W01".
C9_WeeklyBucketMembership ==
    /\ \A i \in 1 .. Len(processed_prs) :
         LET e == processed_prs[i]
         IN  /\ \A K \in DOMAIN weekly_buckets \cup
                          (IF e.merged_at = None THEN {} ELSE {IsoKeyOf(Val(e.merged_at))}) :
                   InBucket(e.number, K) <=>
                       /\ e.merged_at # None
                       /\ MergedInstant(e) >= WindowStart
                       /\ K = IsoKeyOf(Val(e.merged_at))
             /\ ( /\ e.merged_at # None
                  /\ MergedInstant(e) >= WindowStart
                  /\ Val(e.merged_at).year = 2024
                  /\ Val(e.merged_at).month = 1
                  /\ Val(e.merged_at).day = 1 )
                   => InBucket(e.number, <<"2", "0", "2", "4", "-", "W", "0", "1">>)
    /\ \A K \in DOMAIN weekly_buckets :
         \A j \in 1 .. Len(weekly_buckets[K]) :
            \E i \in 1 .. Len(processed_prs) : processed_prs[i] = weekly_buckets[K][j]

\* the loop has bucketed a PR merged on 2024-01-01 under "2024-W01" and has
\* left a PR without a merge timestamp out of every bucket
C9_Witness ==
    /\ \E i \in 1 .. Len(processed_prs) :
         InBucket(processed_prs[i].number, <<"2", "0", "2", "4", "-", "W", "0", "1">>)
    /\ \E i \in 1 .. Len(processed_prs) :
         /\ processed_prs[i].merged_at = None
         /\ \A K \in DOMAIN weekly_buckets : ~InBucket(processed_prs[i].number, K)


\* ------------------------------------------------------------------------
\* Claims about compute_churn_ratio

\* how many commits of pr_commits are within the cap
Examined == Min2(Max2(commit_cap, 0), Len(pr_commits))

\* the commit was committed strictly after the first review
AfterReview(c) ==
    /\ review_time # None
    /\ Instant(Val(parse_iso8601(c.date).value)) > Instant(Val(review_time))

\* additions + deletions over the first n commits of pr_commits
RECURSIVE TotalOver(_)
TotalOver(n) ==
    IF n = 0 THEN 0
    ELSE TotalOver(n - 1) + pr_commits[n].additions + pr_commits[n].deletions

\* additions + deletions over those of the first n commits that were
\* committed strictly after the first review
RECURSIVE AfterOver(_)
AfterOver(n) ==
    IF n = 0 THEN 0
    ELSE AfterOver(n - 1) +
           (IF AfterReview(pr_commits[n])
            THEN pr_commits[n].additions + pr_commits[n].deletions ELSE 0)

\* r is the quotient after / total to the precision of SCALE
IsRatio(r, after, total) ==
    /\ r * total <= after * SCALE
    /\ after * SCALE < (r + 1) * total

\* C11 as stated: only the first min(cap, number of commits) commits count;
\* the result is absent only when there are no commits to examine; it is 0.0
\* if and only if the total of additions + deletions over the examined
\* commits is 0, and otherwise it is the changes of the examined commits
\* committed strictly after the first review divided by that total, within
\* [0, 1].
C11_ChurnZeroIffTotalZero ==
    /\ ~churn_out.raised
    /\ churn_out.value = None => Examined = 0
    /\ churn_out.value # None =>
         /\ Val(churn_out.value) = 0 <=> TotalOver(Examined) = 0
         /\ TotalOver(Examined) # 0 =>
              /\ IsRatio(Val(churn_out.value), AfterOver(Examined), TotalOver(Examined))
              /\ InUnit(Val(churn_out.value))

\* C11 amended: only the first min(cap, number of commits) commits count;
\* the result is absent only when there are no commits to examine; it is 0.0
\* whenever the total of additions + deletions over the examined commits is
\* 0, and otherwise it is the changes of the examined commits committed
\* strictly after the first review divided by that total, within [0, 1]
\* (0.0 again when none of them was committed after the first review).
C11_ChurnRatio ==
    /\ ~churn_out.raised
    /\ churn_out.value = None => Examined = 0
    /\ churn_out.value # None =>
         /\ TotalOver(Examined) = 0 => Val(churn_out.value) = 0
         /\ TotalOver(Examined) # 0 =>
              /\ IsRatio(Val(churn_out.value), AfterOver(Examined), TotalOver(Examined))
              /\ InUnit(Val(churn_out.value))
              /\ Val(churn_out.value) = 0 <=> AfterOver(Examined) = 0

\* a commit lies beyond the cap, it has changed lines, and the ratio returned
\* is strictly between 0 and 1
C11_Witness ==
    /\ 0 < commit_cap
    /\ commit_cap < Len(pr_commits)
    /\ \E i \in commit_cap + 1 .. Len(pr_commits) :
         pr_commits[i].additions + pr_commits[i].deletions > 0
    /\ churn_out.value # None
    /\ 0 < Val(churn_out.value)
    /\ Val(churn_out.value) < SCALE


\* ------------------------------------------------------------------------
\* Claims about compute_ci_failed

\* the failure evidence that could be fetched for a commit: a failing
\* conclusion among its check runs, or a failing legacy status
FailureEvidence(c) ==
    \/ /\ c.runs_fetch = "ok"
       /\ \E i \in 1 .. Len(c.conclusions) :
            c.conclusions[i] \in {"failure", "cancelled", "timed_out", "action_required"}
    \/ /\ c.status_fetch = "ok"
       /\ c.state \in {"failure", "error"}

\* C12: compute_ci_failed returns true if and only if one of the first
\* min(cap, number of commits) commits has a failing check-run conclusion or
\* a failing legacy status, whatever the commits beyond the cap are; a
\* failure to fetch the evidence of a commit counts as no failure evidence
\* for it, never makes the call fail and never keeps the later commits of
\* the window from being examined.
C12_CIFailed ==
    /\ ~ci_out.raised
    /\ ci_out.value <=> \E i \in 1 .. Examined : FailureEvidence(pr_commits[i])

\* ------------------------------------------------------------------------
\* Claims about the clock

\* d.strftime("%Y-%m-%d %H:%M UTC")
Strftime(d) ==
    [year |-> d.year, month |-> d.month, day |-> d.day, hour |-> d.hour,
     minute |-> d.minute]

\* C13: the payload of a run is determined by its raw inputs, its options
\* and one now value: the lookback cutoff is that now minus the lookback,
\* and generated_at is that same now, formatted; no other clock value
\* enters the payload.
C13_OneNow ==
    payload # None =>
        /\ since = Instant(NowAtStart) - 30 * args.months * 24 * 60
        /\ Val(payload).generated_at = Strftime(NowAtStart)

\* ------------------------------------------------------------------------
\* Claims about the weekly stats list

\* the weekly stats list has been built
WeeklyBuilt ==
    \/ pc \in {"payload", "html", "done"}
    \/ pc = "raised" /\ raised_in # "loop"

\* the key a comes before the key b in lexicographic order: they agree up
\* to a position where a has the character of the smaller code point, or a
\* is a proper prefix of b
KeyBefore(a, b) ==
    \/ \E k \in 1 .. Min2(Len(a), Len(b)) :
         /\ \A h \in 1 .. k - 1 : a[h] = b[h]
         /\ Ord(a[k]) < Ord(b[k])
    \/ /\ Len(a) < Len(b)
       /\ \A h \in 1 .. Len(a) : a[h] = b[h]

\* a processed PR was assigned to the week of key K
Assigned(K) ==
    \E i \in 1 .. Len(processed_prs) :
        /\ processed_prs[i].merged_at # None
        /\ MergedInstant(processed_prs[i]) >= WindowStart
        /\ IsoKeyOf(Val(processed_prs[i].merged_at)) = K

\* C14: the weekly stats list has exactly one record for every week a
\* processed PR was assigned to and none for any other week; its records
\* are in strictly ascending lexicographic order of their week keys; and of
\* two bucketed PRs in different buckets the one merged earlier is in the
\* bucket of the smaller key, also across the turn of a year.
C14_WeeklySequence ==
    /\ \A K \in DOMAIN weekly_buckets : weekly_buckets[K] # <<>>
    /\ WeeklyBuilt =>
         /\ \A K \in DOMAIN weekly_buckets :
              Cardinality({i \in 1 .. Len(weekly_stats) : weekly_stats[i].week = K}) = 1
         /\ \A i \in 1 .. Len(weekly_stats) : Assigned(weekly_stats[i].week)
         /\ \A i, j \in 1 .. Len(weekly_stats) :
              i < j => KeyBefore(weekly_stats[i].week, weekly_stats[j].week)
    /\ \A K1, K2 \in DOMAIN weekly_buckets :
         \A i \in 1 .. Len(weekly_buckets[K1]), j \in 1 .. Len(weekly_buckets[K2]) :
            ( /\ K1 # K2
              /\ MergedInstant(weekly_buckets[K1][i]) < MergedInstant(weekly_buckets[K2][j]) )
               => KeyBefore(K1, K2)

\* the weekly stats list has been built for a PR merged on 2023-12-31 and a
\* PR merged on 2024-01-01: two records, of the weeks 2023-W52 and 2024-W01
C14_Witness ==
    /\ WeeklyBuilt
    /\ Len(weekly_stats) = 2
    /\ weekly_stats[1].week = <<"2", "0", "2", "3", "-", "W", "5", "2">>
    /\ weekly_stats[2].week = <<"2", "0", "2", "4", "-", "W", "0", "1">>
    /\ \E i, j \in 1 .. Len(processed_prs) :
         /\ processed_prs[i].merged_at # None
         /\ processed_prs[j].merged_at # None
         /\ Val(processed_prs[i].merged_at).year = 2023
         /\ Val(processed_prs[j].merged_at).year = 2024

=============================================================================
